---- MODULE Spec2Model ----
(***************************************************************************)
(* Weekly Team Activity Tracker (src/src/App.jsx).                         *)
(*                                                                         *)
(* A React component (App) over Firestore, anonymous auth and the Gemini   *)
(* endpoint.  The model holds the component's state slots, the documents   *)
(* of the store, the attached snapshot listeners, and every asynchronous   *)
(* handler invocation that is suspended at an await.                       *)
(*                                                                         *)
(* Text is a sequence of one-character strings ("ab" is <<"a","b">>), so   *)
(* that trim, padStart and the key-to-environment-name conversion are      *)
(* computed.  A message is the sequence of the fragments its template      *)
(* concatenates.                                                           *)
(***************************************************************************)
EXTENDS Integers, Sequences, FiniteSets, TLC

(***************************************************************************)
(* Bounds of the model.                                                    *)
(***************************************************************************)
BaseYear == 2015
YearSpan == 12
MaxTeams == 2
MaxInputs == 2
MaxSummaries == 1
MaxInflight == 1

(***************************************************************************)
(* Text helpers: String.prototype.trim, padStart, number to decimal.       *)
(***************************************************************************)
IsSpace(c) == c = " "

RECURSIVE TrimStart(_)
TrimStart(s) ==
  IF s # <<>> /\ IsSpace(Head(s)) THEN TrimStart(Tail(s)) ELSE s

RECURSIVE TrimEnd(_)
TrimEnd(s) ==
  IF s # <<>> /\ IsSpace(s[Len(s)]) THEN TrimEnd(SubSeq(s, 1, Len(s) - 1)) ELSE s

Trim(s) == TrimEnd(TrimStart(s))

Digit(n) == <<"0", "1", "2", "3", "4", "5", "6", "7", "8", "9">>[n + 1]

RECURSIVE ToDecimal(_)
ToDecimal(n) ==
  IF n < 10 THEN <<Digit(n)>> ELSE Append(ToDecimal(n \div 10), Digit(n % 10))

RECURSIVE PadStart(_, _, _)
PadStart(s, n, c) ==
  IF Len(s) >= n THEN s ELSE PadStart(<<c>> \o s, n, c)

(***************************************************************************)
(* Calendar arithmetic of the Date built-in, in whole days since           *)
(* 1970-01-01 (the code's millisecond values are these times 86400000; its *)
(* only arithmetic on them is a difference divided by 86400000).           *)
(***************************************************************************)
IsLeap(y) == (y % 4 = 0 /\ y % 100 # 0) \/ y % 400 = 0

LeapsBefore(y) == (y - 1) \div 4 - (y - 1) \div 100 + (y - 1) \div 400

DaysBeforeYear(y) == 365 * (y - 1970) + LeapsBefore(y) - LeapsBefore(1970)

DaysInMonth(y, m) ==
  IF m = 1 THEN (IF IsLeap(y) THEN 29 ELSE 28)
  ELSE IF m \in {3, 5, 8, 10} THEN 30 ELSE 31

RECURSIVE DaysBeforeMonth(_, _)
DaysBeforeMonth(y, m) ==
  IF m = 0 THEN 0 ELSE DaysBeforeMonth(y, m - 1) + DaysInMonth(y, m - 1)

\* Date.UTC(year, month, day) with a zero-based month, in days.
DateUTC(y, m, d) == DaysBeforeYear(y) + DaysBeforeMonth(y, m) + (d - 1)

\* getUTCDay: 0 is Sunday; 1970-01-01 was a Thursday.
GetUTCDay(days) == (days + 4) % 7

GetUTCFullYear(days) ==
  CHOOSE y \in (BaseYear - 1)..(BaseYear + YearSpan + 1) :
    DaysBeforeYear(y) <= days /\ days < DaysBeforeYear(y + 1)

\* Math.ceil(n / 7) for an integer n >= 0.
CeilDiv7(n) == (n + 6) \div 7

(***************************************************************************)
(* getWeekKey(date): date is a local calendar date [y, m, d], m zero-based.*)
(***************************************************************************)
\* Mutation: getUTCDay() used without "|| 7", so Sunday counts as day 0.
ThursdayShiftNoSunday(weekday) == 4 - weekday

\* dayNum = getUTCDay() || 7; the date moves by 4 - dayNum days.
ThursdayShift(weekday) == 4 - (IF weekday = 0 THEN 7 ELSE weekday)

getWeekKey(date) ==
  LET tempDate0 == DateUTC(date.y, date.m, date.d)
      tempDate  == tempDate0 + ThursdayShift(GetUTCDay(tempDate0))
      year      == GetUTCFullYear(tempDate)
      yearStart == DateUTC(year, 0, 1)
      weekNo    == CeilDiv7((tempDate - yearStart) + 1)
  IN  ToDecimal(year) \o <<"-", "W">> \o PadStart(ToDecimal(weekNo), 2, "0")

(***************************************************************************)
(* Messages.  `a || b` on strings: the first when it is non-empty.         *)
(***************************************************************************)
OrElse(a, b) == IF a # <<>> THEN a ELSE b

TeamNameRequired == <<"Team name is required.">>
CreateTeamFirst == <<"Create a team first.">>
NotConfigured == <<"Firebase is not configured.">>
MemberAndUpdateRequired == <<"Member name and update are required.">>
AddUpdateFirst == <<"Add at least one weekly update before generating summary.">>
MissingGeminiKey == <<"Missing VITE_GEMINI_API_KEY in .env file.">>
AiRequestFailed(body) == <<"AI request failed: ">> \o body
NoSummaryReturned == <<"No summary returned.">>

(***************************************************************************)
(* firebase.js: the required configuration keys and the aggregated         *)
(* message naming the missing ones.                                        *)
(***************************************************************************)
requiredKeys ==
  << <<"a","p","i","K","e","y">>,
     <<"a","u","t","h","D","o","m","a","i","n">>,
     <<"p","r","o","j","e","c","t","I","d">>,
     <<"s","t","o","r","a","g","e","B","u","c","k","e","t">>,
     <<"m","e","s","s","a","g","i","n","g","S","e","n","d","e","r","I","d">>,
     <<"a","p","p","I","d">> >>

LowerLetters ==
  <<"a","b","c","d","e","f","g","h","i","j","k","l","m",
    "n","o","p","q","r","s","t","u","v","w","x","y","z">>

UpperLetters ==
  <<"A","B","C","D","E","F","G","H","I","J","K","L","M",
    "N","O","P","Q","R","S","T","U","V","W","X","Y","Z">>

IsUpper(c) == \E i \in 1..Len(UpperLetters) : UpperLetters[i] = c

ToUpperChar(c) ==
  IF \E i \in 1..Len(LowerLetters) : LowerLetters[i] = c
  THEN UpperLetters[CHOOSE i \in 1..Len(LowerLetters) : LowerLetters[i] = c]
  ELSE c

\* key.replace(/([A-Z])/g, '_$1').toUpperCase()
RECURSIVE UpperSnake(_)
UpperSnake(key) ==
  IF key = <<>> THEN <<>>
  ELSE (IF IsUpper(Head(key)) THEN <<"_", Head(key)>> ELSE <<ToUpperChar(Head(key))>>)
       \o UpperSnake(Tail(key))

EnvName(key) == <<"VITE_FIREBASE_">> \o UpperSnake(key)

\* Array.prototype.join
RECURSIVE Join(_, _)
Join(parts, sep) ==
  IF parts = <<>> THEN <<>>
  ELSE IF Len(parts) = 1 THEN parts[1]
  ELSE parts[1] \o <<sep>> \o Join(Tail(parts), sep)

\* requiredKeys.filter((key) => !firebaseConfig[key]); present is the set of
\* indexes of requiredKeys whose environment value is set.
RECURSIVE MissingFrom(_, _)
MissingFrom(i, present) ==
  IF i > Len(requiredKeys) THEN <<>>
  ELSE (IF i \in present THEN <<>> ELSE <<requiredKeys[i]>>) \o MissingFrom(i + 1, present)

missingFirebaseKeys(present) == MissingFrom(1, present)

RECURSIVE MapEnvName(_)
MapEnvName(keys) ==
  IF keys = <<>> THEN <<>> ELSE <<EnvName(Head(keys))>> \o MapEnvName(Tail(keys))

ConfigErrorFor(present) ==
  IF Len(missingFirebaseKeys(present)) # 0
  THEN <<"Missing Firebase environment variables: ">>
       \o Join(MapEnvName(missingFirebaseKeys(present)), ", ") \o <<".">>
  ELSE <<>>

(***************************************************************************)
(* State.                                                                  *)
(***************************************************************************)
VARIABLES
  envPresent,     \* indexes of requiredKeys whose VITE_FIREBASE_* value is set
  firebaseConfigError, \* the message firebase.js computes when it is loaded
  geminiKey,      \* VITE_GEMINI_API_KEY is set
  today,          \* the calendar date of new Date() when App first renders
  currentUser,    \* auth.currentUser is non-null
  signIn,         \* signInAnonymously: "none", "pending", "done", "failed"
  mounted,        \* App is mounted
  mountEffectRan, \* useEffect(..., []) has run
  teamName, activeTeam, weekKey, memberName, update,
  entries, summaries, loadingAi, error,     \* the useState slots of App
  weekEntries,    \* the value useMemo holds
  effTeam,        \* id of the activeTeam the [activeTeam] effect last ran with
  listeners,      \* attached onSnapshot listeners
  teams, weeklyInputs, summaryDocs,         \* documents of the store
  ctPending,      \* handleCreateTeam invocations awaiting addDoc
  aePending,      \* handleAddEntry invocations awaiting addDoc
  gsPending       \* handleGenerateSummary invocations awaiting fetch or addDoc

cfgVars == <<envPresent, firebaseConfigError, geminiKey, today>>
authVars == <<currentUser, signIn>>
formVars == <<teamName, weekKey, memberName, update>>
cacheVars == <<entries, summaries, weekEntries>>
storeVars == <<teams, weeklyInputs, summaryDocs>>
pendVars == <<ctPending, aePending, gsPending>>

vars ==
  <<cfgVars, authVars, mounted, mountEffectRan, formVars, activeTeam, cacheVars,
    loadingAi, error, effTeam, listeners, storeVars, pendVars>>

NoTeam == [id |-> 0, name |-> <<>>]

(***************************************************************************)
(* firebase.js module values.                                              *)
(***************************************************************************)
\* app = firebaseConfigError ? null : initializeApp(...); db and auth are
\* non-null exactly when app is.
appReady == firebaseConfigError = <<>>
db == appReady
auth == appReady

(***************************************************************************)
(* Inputs the model draws from.                                            *)
(***************************************************************************)
Today == [y |-> 2026, m |-> 2, d |-> 2]

TeamNameInputs == {<<>>, <<" ", " ">>, <<" ", "S">>}
MemberNameInputs == {<<" ">>, <<"A", " ">>}
UpdateInputs == {<<>>, <<" ", "u">>}
WeekKeyInputs == {getWeekKey(Today), <<"x">>}

StoreErrors == {<<"Missing or insufficient permissions.">>}
AuthErrors == {<<"Firebase: Error (auth/operation-not-allowed).">>}
FetchErrors == {<<"Failed to fetch">>}

\* What the inference endpoint answers: a success whose body holds
\* candidates[0].content.parts[0].text, a success whose body lacks it, a
\* non-success status with a body text, or no answer at all (fetch rejects).
ModelOutcomes ==
  { [kind |-> "text", body |-> <<"W">>],
    [kind |-> "notext", body |-> <<>>],
    [kind |-> "status", body |-> <<"q">>],
    [kind |-> "network", body |-> <<>>] }

(***************************************************************************)
(* Queries and derived views.                                              *)
(***************************************************************************)
RECURSIVE FilterTeam(_, _)
FilterTeam(docs, t) ==
  IF docs = <<>> THEN <<>>
  ELSE (IF Head(docs).team = t THEN <<Head(docs)>> ELSE <<>>) \o FilterTeam(Tail(docs), t)

\* Mutation: the query has no orderBy; documents come in creation order.
OrderByNothing(docs) == docs

\* orderBy('createdAt', 'desc')
RECURSIVE OrderByCreatedAtDesc(_)
OrderByCreatedAtDesc(docs) ==
  IF docs = <<>> THEN <<>>
  ELSE LET i == CHOOSE i \in 1..Len(docs) :
                  \A j \in 1..Len(docs) : docs[j].createdAt <= docs[i].createdAt
       IN  <<docs[i]>> \o
           OrderByCreatedAtDesc(SubSeq(docs, 1, i - 1) \o SubSeq(docs, i + 1, Len(docs)))

\* The documents a snapshot of teams/{t}/<collection> holds.
SnapshotDocs(coll, t) == OrderByCreatedAtDesc(FilterTeam(coll, t))

\* entries.filter((item) => item.weekKey === weekKey)
RECURSIVE FilterByWeek(_, _)
FilterByWeek(list, wk) ==
  IF list = <<>> THEN <<>>
  ELSE (IF Head(list).weekKey = wk THEN <<Head(list)>> ELSE <<>>)
       \o FilterByWeek(Tail(list), wk)

\* Mutation: the dependency list of useMemo names entries only.
UseMemoEntriesOnly(held, e, wk, e2, wk2) ==
  IF e2 # e THEN FilterByWeek(e2, wk2) ELSE held

\* useMemo(() => ..., [entries, weekKey]): the held value is recomputed by the
\* render that follows a change of entries or of weekKey.
UseMemo(held, e, wk, e2, wk2) ==
  IF e2 # e \/ wk2 # wk THEN FilterByWeek(e2, wk2) ELSE held

\* A state setter of an unmounted component changes nothing.
Set(new, old) == IF mounted THEN new ELSE old

RemoveAt(s, i) == SubSeq(s, 1, i - 1) \o SubSeq(s, i + 1, Len(s))

(***************************************************************************)
(* The state after the first render of App.  The page has just loaded:     *)
(* no session has been restored into auth.currentUser yet.                 *)
(***************************************************************************)
InitFor(environments, dates) ==
  /\ envPresent \in environments
  /\ firebaseConfigError = ConfigErrorFor(envPresent)
  /\ geminiKey \in BOOLEAN
  /\ today \in dates
  /\ currentUser = FALSE
  /\ signIn = "none"
  /\ mounted = TRUE
  /\ mountEffectRan = FALSE
  /\ teamName = <<>>
  /\ activeTeam = NoTeam
  /\ weekKey = getWeekKey(today)
  /\ memberName = <<>>
  /\ update = <<>>
  /\ entries = <<>>
  /\ summaries = <<>>
  /\ loadingAi = FALSE
  /\ error = <<>>
  /\ weekEntries = FilterByWeek(entries, weekKey)
  /\ effTeam = 0
  /\ listeners = {}
  /\ teams = <<>>
  /\ weeklyInputs = <<>>
  /\ summaryDocs = <<>>
  /\ ctPending = <<>>
  /\ aePending = <<>>
  /\ gsPending = <<>>

Init == InitFor(SUBSET (1..Len(requiredKeys)), {Today})

(***************************************************************************)
(* useEffect(..., []) and ensureAnonymousAuth.                             *)
(***************************************************************************)
MountEffect ==
  /\ mounted /\ ~mountEffectRan
  /\ mountEffectRan' = TRUE
  /\ IF firebaseConfigError # <<>>
     THEN /\ error' = firebaseConfigError
          /\ UNCHANGED signIn
     ELSE IF ~auth
     THEN /\ error' = OrElse(firebaseConfigError, NotConfigured)
          /\ UNCHANGED signIn
     ELSE /\ signIn' = (IF ~currentUser THEN "pending" ELSE signIn)
          /\ UNCHANGED error
  /\ UNCHANGED <<cfgVars, currentUser, mounted, formVars, activeTeam, cacheVars,
                 loadingAi, effTeam, listeners, storeVars, pendVars>>

\* signInAnonymously resolves, or rejects into the .catch of the effect.
SignInSettle ==
  /\ signIn = "pending"
  /\ \/ /\ signIn' = "done"
        /\ currentUser' = TRUE
        /\ UNCHANGED error
     \/ \E e \in AuthErrors :
          /\ signIn' = "failed"
          /\ error' = Set(e, error)
          /\ UNCHANGED currentUser
  /\ UNCHANGED <<cfgVars, mounted, mountEffectRan, formVars, activeTeam, cacheVars,
                 loadingAi, effTeam, listeners, storeVars, pendVars>>

(***************************************************************************)
(* useEffect(..., [activeTeam]): cleanup of the previous run, then setup.   *)
(***************************************************************************)
\* Mutation: the cleanup calls unsubscribeSummaries() only.
CleanupSummariesOnly(ls, t) == {l \in ls : ~(l.team = t /\ l.coll = "summaries")}

\* unsubscribeUpdates(); unsubscribeSummaries(); of the run for team t.
Cleanup(ls, t) == {l \in ls : l.team # t}

\* Mutation: only the weeklyInputs query is given to onSnapshot.
SubscribeUpdatesOnly(ls, team) ==
  IF ~db \/ team = NoTeam THEN ls
  ELSE ls \cup { [team |-> team.id, coll |-> "weeklyInputs"] }

\* The two onSnapshot calls.
Subscribe(ls, team) ==
  IF ~db \/ team = NoTeam THEN ls
  ELSE ls \cup { [team |-> team.id, coll |-> "weeklyInputs"],
                 [team |-> team.id, coll |-> "summaries"] }

SubscriptionEffect ==
  /\ mounted /\ mountEffectRan
  /\ effTeam # activeTeam.id
  /\ listeners' = Subscribe(Cleanup(listeners, effTeam), activeTeam)
  /\ effTeam' = activeTeam.id
  /\ UNCHANGED <<cfgVars, authVars, mounted, mountEffectRan, formVars, activeTeam,
                 cacheVars, loadingAi, error, storeVars, pendVars>>

\* The component is torn down: the cleanup of the last run is called and the
\* state slots are discarded (the model keeps empty values in the slots of an
\* unmounted component).  Suspended handlers stay suspended.
Unmount ==
  /\ mounted /\ mountEffectRan
  /\ mounted' = FALSE
  /\ listeners' = Cleanup(listeners, effTeam)
  /\ effTeam' = 0
  /\ teamName' = <<>> /\ activeTeam' = NoTeam /\ weekKey' = <<>>
  /\ memberName' = <<>> /\ update' = <<>>
  /\ entries' = <<>> /\ summaries' = <<>> /\ weekEntries' = <<>>
  /\ loadingAi' = FALSE /\ error' = <<>>
  /\ UNCHANGED <<cfgVars, authVars, mountEffectRan, storeVars, pendVars>>

\* An onSnapshot callback of an attached listener: the store delivers the
\* collection as it is now (the initial snapshot, or the one after a change),
\* and the cached list is replaced by it.
SnapshotCallback(l) ==
  /\ l \in listeners
  /\ IF l.coll = "weeklyInputs"
     THEN /\ entries' = Set(SnapshotDocs(weeklyInputs, l.team), entries)
          /\ UNCHANGED summaries
     ELSE /\ summaries' = Set(SnapshotDocs(summaryDocs, l.team), summaries)
          /\ UNCHANGED entries
  /\ weekEntries' = UseMemo(weekEntries, entries, weekKey, entries', weekKey)
  /\ UNCHANGED <<cfgVars, authVars, mounted, mountEffectRan, formVars, activeTeam,
                 loadingAi, error, effTeam, listeners, storeVars, pendVars>>

(***************************************************************************)
(* The onChange handlers of the four inputs.                               *)
(***************************************************************************)
UserCanAct == mounted /\ mountEffectRan

SetTeamName(v) ==
  /\ UserCanAct
  /\ v # teamName
  /\ teamName' = v
  /\ UNCHANGED <<cfgVars, authVars, mounted, mountEffectRan, weekKey, memberName,
                 update, activeTeam, cacheVars, loadingAi, error, effTeam, listeners,
                 storeVars, pendVars>>

SetWeekKey(v) ==
  /\ UserCanAct
  /\ v # weekKey
  /\ weekKey' = v
  /\ weekEntries' = UseMemo(weekEntries, entries, weekKey, entries, v)
  /\ UNCHANGED <<cfgVars, authVars, mounted, mountEffectRan, teamName, memberName,
                 update, activeTeam, entries, summaries, loadingAi, error, effTeam,
                 listeners, storeVars, pendVars>>

SetMemberName(v) ==
  /\ UserCanAct
  /\ v # memberName
  /\ memberName' = v
  /\ UNCHANGED <<cfgVars, authVars, mounted, mountEffectRan, teamName, weekKey,
                 update, activeTeam, cacheVars, loadingAi, error, effTeam, listeners,
                 storeVars, pendVars>>

SetUpdate(v) ==
  /\ UserCanAct
  /\ v # update
  /\ update' = v
  /\ UNCHANGED <<cfgVars, authVars, mounted, mountEffectRan, teamName, weekKey,
                 memberName, activeTeam, cacheVars, loadingAi, error, effTeam,
                 listeners, storeVars, pendVars>>

(***************************************************************************)
(* handleCreateTeam.                                                       *)
(***************************************************************************)
\* Mutation: the handler does not test db.
CreateTeamRejectionNoDbTest ==
  IF Trim(teamName) = <<>> THEN TeamNameRequired ELSE <<>>

\* Mutation: the name is tested without trim().
CreateTeamRejectionNoTrim ==
  IF teamName = <<>> THEN TeamNameRequired
  ELSE IF ~db THEN OrElse(firebaseConfigError, NotConfigured)
  ELSE <<>>

\* The message of the early return taken, <<>> when none is taken.
CreateTeamRejection ==
  IF Trim(teamName) = <<>> THEN TeamNameRequired
  ELSE IF ~db THEN OrElse(firebaseConfigError, NotConfigured)
  ELSE <<>>

\* Up to the await of addDoc(collection(db, 'teams'), ...).
HandleCreateTeam ==
  /\ UserCanAct
  /\ IF CreateTeamRejection # <<>>
     THEN /\ error' = CreateTeamRejection
          /\ UNCHANGED ctPending
     ELSE /\ Len(ctPending) < MaxInflight
          /\ Len(teams) + Len(ctPending) < MaxTeams
          /\ error' = <<>>
          /\ ctPending' = Append(ctPending, [teamName |-> teamName])
  /\ UNCHANGED <<cfgVars, authVars, mounted, mountEffectRan, formVars, activeTeam,
                 cacheVars, loadingAi, effTeam, listeners, storeVars, aePending,
                 gsPending>>

\* addDoc resolves: the team document exists and the handler resumes.
CreateTeamAck(i) ==
  /\ i \in 1..Len(ctPending)
  /\ ctPending' = RemoveAt(ctPending, i)
  /\ LET id == Len(teams) + 1
         name == Trim(ctPending[i].teamName)
     IN  /\ teams' = Append(teams, [id |-> id, name |-> name, createdAt |-> id])
         /\ activeTeam' = Set([id |-> id, name |-> name], activeTeam)
         /\ teamName' = Set(<<>>, teamName)
  /\ UNCHANGED <<cfgVars, authVars, mounted, mountEffectRan, weekKey, memberName,
                 update, cacheVars, loadingAi, error, effTeam, listeners, weeklyInputs,
                 summaryDocs, aePending, gsPending>>

\* addDoc rejects with e: handleCreateTeam has no try block, so the rejection
\* leaves the handler and no statement of it runs any more.
CreateTeamRejected(i, e) ==
  /\ i \in 1..Len(ctPending)
  /\ e \in StoreErrors
  /\ ctPending' = RemoveAt(ctPending, i)
  /\ UNCHANGED <<cfgVars, authVars, mounted, mountEffectRan, formVars, activeTeam,
                 cacheVars, loadingAi, error, effTeam, listeners, storeVars,
                 aePending, gsPending>>

(***************************************************************************)
(* handleAddEntry.                                                         *)
(***************************************************************************)
\* Mutation: the handler does not test activeTeam.
AddEntryRejectionNoTeamTest ==
  IF ~db THEN OrElse(firebaseConfigError, NotConfigured)
  ELSE IF Trim(memberName) = <<>> \/ Trim(update) = <<>> THEN MemberAndUpdateRequired
  ELSE <<>>

\* The message of the early return taken, <<>> when none is taken.
AddEntryRejection ==
  IF activeTeam = NoTeam THEN CreateTeamFirst
  ELSE IF ~db THEN OrElse(firebaseConfigError, NotConfigured)
  ELSE IF Trim(memberName) = <<>> \/ Trim(update) = <<>> THEN MemberAndUpdateRequired
  ELSE <<>>

\* Mutation: the document takes memberName and update without trim().
HandleAddEntryNoTrim ==
  /\ UserCanAct
  /\ IF AddEntryRejection # <<>>
     THEN /\ error' = AddEntryRejection
          /\ UNCHANGED aePending
     ELSE /\ Len(aePending) < MaxInflight
          /\ Len(weeklyInputs) + Len(aePending) < MaxInputs
          /\ error' = <<>>
          /\ aePending' = Append(aePending,
                 [team |-> activeTeam, memberName |-> memberName,
                  update |-> update, weekKey |-> weekKey])
  /\ UNCHANGED <<cfgVars, authVars, mounted, mountEffectRan, formVars, activeTeam,
                 cacheVars, loadingAi, effTeam, listeners, storeVars, ctPending,
                 gsPending>>

\* Up to the await of addDoc(collection(db, 'teams', id, 'weeklyInputs'), ...).
HandleAddEntry ==
  /\ UserCanAct
  /\ IF AddEntryRejection # <<>>
     THEN /\ error' = AddEntryRejection
          /\ UNCHANGED aePending
     ELSE /\ Len(aePending) < MaxInflight
          /\ Len(weeklyInputs) + Len(aePending) < MaxInputs
          /\ error' = <<>>
          /\ aePending' = Append(aePending,
                 [team |-> activeTeam, memberName |-> Trim(memberName),
                  update |-> Trim(update), weekKey |-> weekKey])
  /\ UNCHANGED <<cfgVars, authVars, mounted, mountEffectRan, formVars, activeTeam,
                 cacheVars, loadingAi, effTeam, listeners, storeVars, ctPending,
                 gsPending>>

\* addDoc resolves: the weekly input exists and the handler resumes.
AddEntryAck(i) ==
  /\ i \in 1..Len(aePending)
  /\ aePending' = RemoveAt(aePending, i)
  /\ LET p == aePending[i]
         id == Len(weeklyInputs) + 1
     IN  weeklyInputs' = Append(weeklyInputs,
            [id |-> id, team |-> p.team.id, memberName |-> p.memberName,
             update |-> p.update, weekKey |-> p.weekKey, createdAt |-> id])
  /\ update' = Set(<<>>, update)
  /\ UNCHANGED <<cfgVars, authVars, mounted, mountEffectRan, teamName, weekKey,
                 memberName, activeTeam, cacheVars, loadingAi, error, effTeam,
                 listeners, teams, summaryDocs, ctPending, gsPending>>

\* Mutation: setUpdate('') stands in a finally block around the await.
AddEntryRejectedClearsUpdate(i, e) ==
  /\ i \in 1..Len(aePending)
  /\ e \in StoreErrors
  /\ aePending' = RemoveAt(aePending, i)
  /\ update' = Set(<<>>, update)
  /\ UNCHANGED <<cfgVars, authVars, mounted, mountEffectRan, teamName, weekKey,
                 memberName, activeTeam, cacheVars, loadingAi, error, effTeam,
                 listeners, storeVars, ctPending, gsPending>>

\* addDoc rejects with e: handleAddEntry has no try block either.
AddEntryRejected(i, e) ==
  /\ i \in 1..Len(aePending)
  /\ e \in StoreErrors
  /\ aePending' = RemoveAt(aePending, i)
  /\ UNCHANGED <<cfgVars, authVars, mounted, mountEffectRan, formVars, activeTeam,
                 cacheVars, loadingAi, error, effTeam, listeners, storeVars,
                 ctPending, gsPending>>

(***************************************************************************)
(* handleGenerateSummary and createAiSummary.                              *)
(***************************************************************************)
\* Mutation: the handler does not test activeTeam.
GenerateSummaryRejectionNoTeamTest ==
  IF ~db THEN OrElse(firebaseConfigError, NotConfigured)
  ELSE IF Len(weekEntries) = 0 THEN AddUpdateFirst
  ELSE <<>>

\* Mutation: the handler does not test weekEntries.length.
GenerateSummaryRejectionNoEntriesTest ==
  IF activeTeam = NoTeam THEN CreateTeamFirst
  ELSE IF ~db THEN OrElse(firebaseConfigError, NotConfigured)
  ELSE <<>>

\* The message of the early return taken, <<>> when none is taken.
GenerateSummaryRejection ==
  IF activeTeam = NoTeam THEN CreateTeamFirst
  ELSE IF ~db THEN OrElse(firebaseConfigError, NotConfigured)
  ELSE IF Len(weekEntries) = 0 THEN AddUpdateFirst
  ELSE <<>>

\* Mutation: there is no finally block.
FinallyMissing == loadingAi

\* finally { setLoadingAi(false) }
FinallyLoadingAi == FALSE

\* Mutation: the button is not disabled while loadingAi.
HandleGenerateSummaryNotDisabled ==
  /\ UserCanAct
  /\ IF GenerateSummaryRejection # <<>>
     THEN /\ error' = GenerateSummaryRejection
          /\ UNCHANGED <<loadingAi, gsPending>>
     ELSE IF ~geminiKey
     THEN /\ error' = MissingGeminiKey
          /\ loadingAi' = FinallyLoadingAi
          /\ UNCHANGED gsPending
     ELSE /\ Len(gsPending) < MaxInflight
          /\ Len(summaryDocs) + Len(gsPending) < MaxSummaries
          /\ error' = <<>>
          /\ loadingAi' = TRUE
          /\ gsPending' = Append(gsPending,
                 [pc |-> "fetch", team |-> activeTeam, weekKey |-> weekKey,
                  updates |-> weekEntries, content |-> <<>>])
  /\ UNCHANGED <<cfgVars, authVars, mounted, mountEffectRan, formVars, activeTeam,
                 cacheVars, effTeam, listeners, storeVars, ctPending, aePending>>

\* Mutation: createAiSummary does not test apiKey and goes on to fetch.
HandleGenerateSummaryNoKeyTest ==
  /\ UserCanAct
  /\ ~loadingAi
  /\ IF GenerateSummaryRejection # <<>>
     THEN /\ error' = GenerateSummaryRejection
          /\ UNCHANGED <<loadingAi, gsPending>>
     ELSE /\ Len(gsPending) < MaxInflight
          /\ Len(summaryDocs) + Len(gsPending) < MaxSummaries
          /\ error' = <<>>
          /\ loadingAi' = TRUE
          /\ gsPending' = Append(gsPending,
                 [pc |-> "fetch", team |-> activeTeam, weekKey |-> weekKey,
                  updates |-> weekEntries, content |-> <<>>])
  /\ UNCHANGED <<cfgVars, authVars, mounted, mountEffectRan, formVars, activeTeam,
                 cacheVars, effTeam, listeners, storeVars, ctPending, aePending>>

\* The button is disabled while loadingAi.  Up to the await of fetch; with
\* no credential createAiSummary throws before fetch and the catch and
\* finally blocks run before anything else does.
HandleGenerateSummary ==
  /\ UserCanAct
  /\ ~loadingAi
  /\ IF GenerateSummaryRejection # <<>>
     THEN /\ error' = GenerateSummaryRejection
          /\ UNCHANGED <<loadingAi, gsPending>>
     ELSE IF ~geminiKey
     THEN /\ error' = MissingGeminiKey
          /\ loadingAi' = FinallyLoadingAi
          /\ UNCHANGED gsPending
     ELSE /\ Len(gsPending) < MaxInflight
          /\ Len(summaryDocs) + Len(gsPending) < MaxSummaries
          /\ error' = <<>>
          /\ loadingAi' = TRUE
          /\ gsPending' = Append(gsPending,
                 [pc |-> "fetch", team |-> activeTeam, weekKey |-> weekKey,
                  updates |-> weekEntries, content |-> <<>>])
  /\ UNCHANGED <<cfgVars, authVars, mounted, mountEffectRan, formVars, activeTeam,
                 cacheVars, effTeam, listeners, storeVars, ctPending, aePending>>

\* The message createAiSummary throws for an outcome, <<>> when it returns.
ModelFailure(o) ==
  IF o.kind = "status" THEN AiRequestFailed(o.body)
  ELSE IF o.kind = "network" THEN CHOOSE e \in FetchErrors : TRUE
  ELSE <<>>

\* data?.candidates?.[0]?.content?.parts?.[0]?.text ?? 'No summary returned.'
ModelText(o) == IF o.kind = "text" THEN o.body ELSE NoSummaryReturned

\* fetch settles.  On success the handler goes on to the await of
\* addDoc(collection(db, 'teams', id, 'summaries'), ...).
ModelSettle(i, o) ==
  /\ i \in 1..Len(gsPending)
  /\ gsPending[i].pc = "fetch"
  /\ IF ModelFailure(o) # <<>>
     THEN /\ gsPending' = RemoveAt(gsPending, i)
          /\ error' = Set(ModelFailure(o), error)
          /\ loadingAi' = Set(FinallyLoadingAi, loadingAi)
     ELSE /\ gsPending' = [gsPending EXCEPT ![i].pc = "write", ![i].content = ModelText(o)]
          /\ UNCHANGED <<error, loadingAi>>
  /\ UNCHANGED <<cfgVars, authVars, mounted, mountEffectRan, formVars, activeTeam,
                 cacheVars, effTeam, listeners, storeVars, ctPending, aePending>>

\* Mutation: the document takes the week key selected when the write is
\* acknowledged instead of the one the handler was invoked with.
SummaryWriteAckCurrentWeek(i) ==
  /\ i \in 1..Len(gsPending)
  /\ gsPending[i].pc = "write"
  /\ gsPending' = RemoveAt(gsPending, i)
  /\ LET p == gsPending[i]
         id == Len(summaryDocs) + 1
     IN  summaryDocs' = Append(summaryDocs,
            [id |-> id, team |-> p.team.id, weekKey |-> weekKey,
             content |-> p.content, createdAt |-> id])
  /\ loadingAi' = Set(FinallyLoadingAi, loadingAi)
  /\ UNCHANGED <<cfgVars, authVars, mounted, mountEffectRan, formVars, activeTeam,
                 cacheVars, error, effTeam, listeners, teams, weeklyInputs,
                 ctPending, aePending>>

\* addDoc resolves: the summary exists; the finally block runs.
SummaryWriteAck(i) ==
  /\ i \in 1..Len(gsPending)
  /\ gsPending[i].pc = "write"
  /\ gsPending' = RemoveAt(gsPending, i)
  /\ LET p == gsPending[i]
         id == Len(summaryDocs) + 1
     IN  summaryDocs' = Append(summaryDocs,
            [id |-> id, team |-> p.team.id, weekKey |-> p.weekKey,
             content |-> p.content, createdAt |-> id])
  /\ loadingAi' = Set(FinallyLoadingAi, loadingAi)
  /\ UNCHANGED <<cfgVars, authVars, mounted, mountEffectRan, formVars, activeTeam,
                 cacheVars, error, effTeam, listeners, teams, weeklyInputs,
                 ctPending, aePending>>

\* addDoc rejects with e: the catch block, then the finally block.
SummaryWriteRejected(i, e) ==
  /\ i \in 1..Len(gsPending)
  /\ gsPending[i].pc = "write"
  /\ e \in StoreErrors
  /\ gsPending' = RemoveAt(gsPending, i)
  /\ error' = Set(e, error)
  /\ loadingAi' = Set(FinallyLoadingAi, loadingAi)
  /\ UNCHANGED <<cfgVars, authVars, mounted, mountEffectRan, formVars, activeTeam,
                 cacheVars, effTeam, listeners, storeVars, ctPending, aePending>>

(***************************************************************************)
(* The specification.                                                      *)
(***************************************************************************)
Next ==
  \/ MountEffect
  \/ SignInSettle
  \/ SubscriptionEffect
  \/ Unmount
  \/ \E l \in listeners : SnapshotCallback(l)
  \/ \E v \in TeamNameInputs : SetTeamName(v)
  \/ \E v \in WeekKeyInputs : SetWeekKey(v)
  \/ \E v \in MemberNameInputs : SetMemberName(v)
  \/ \E v \in UpdateInputs : SetUpdate(v)
  \/ HandleCreateTeam
  \/ \E i \in 1..MaxInflight : CreateTeamAck(i)
  \/ \E i \in 1..MaxInflight, e \in StoreErrors : CreateTeamRejected(i, e)
  \/ HandleAddEntry
  \/ \E i \in 1..MaxInflight : AddEntryAck(i)
  \/ \E i \in 1..MaxInflight, e \in StoreErrors : AddEntryRejected(i, e)
  \/ HandleGenerateSummary
  \/ \E i \in 1..MaxInflight, o \in ModelOutcomes : ModelSettle(i, o)
  \/ \E i \in 1..MaxInflight : SummaryWriteAck(i)
  \/ \E i \in 1..MaxInflight, e \in StoreErrors : SummaryWriteRejected(i, e)

Spec == Init /\ [][Next]_vars

(***************************************************************************)
(* The week key of the first render, over every date of the range: App is  *)
(* constructed on any day, and then the week field can be edited.          *)
(***************************************************************************)
Dates ==
  { dt \in [y : BaseYear..(BaseYear + YearSpan), m : 0..11, d : 1..31] :
      dt.d <= DaysInMonth(dt.y, dt.m) }

InitWeek == InitFor({1..Len(requiredKeys)}, Dates)

NextWeek ==
  \/ MountEffect
  \/ \E v \in WeekKeyInputs : SetWeekKey(v)

SpecWeek == InitWeek /\ [][NextWeek]_vars

(***************************************************************************)
(* C7.  getWeekKey is the ISO-8601 week identifier.                        *)
(***************************************************************************)
\* The reference the key is compared with counts days from 1 January of the
\* year before BaseYear and takes its weekdays (Monday 1 to Sunday 7) from a
\* known Monday; the Thursday of the Monday-to-Sunday week of a day with
\* weekday w lies 4 - w days after it.
YearLength(y) == IF IsLeap(y) THEN 366 ELSE 365

RECURSIVE DayOfYearFrom(_, _)
DayOfYearFrom(y, n) ==
  IF n < YearLength(y) THEN [year |-> y, dayOfYear |-> n]
  ELSE DayOfYearFrom(y + 1, n - YearLength(y))

\* Day number of a calendar date, by counting the days of the years and
\* months before it from 1 January of the year before BaseYear.
RECURSIVE DaysOfYears(_, _)
DaysOfYears(from, to) ==
  IF from >= to THEN 0 ELSE YearLength(from) + DaysOfYears(from + 1, to)

RECURSIVE DaysOfMonths(_, _)
DaysOfMonths(y, m) ==
  IF m = 0 THEN 0 ELSE DaysOfMonths(y, m - 1) + DaysInMonth(y, m - 1)

DayNumber(dt) == DaysOfYears(BaseYear - 1, dt.y) + DaysOfMonths(dt.y, dt.m) + dt.d - 1

\* The weekday of day 0, given that 2026-03-02 is a Monday.
EpochWeekday ==
  LET known == DayNumber([y |-> 2026, m |-> 2, d |-> 2])
  IN  ((0 - known) % 7) + 1

WeekdayOf(n) == ((n + EpochWeekday - 1) % 7) + 1

IsoWeekOf(dt) ==
  LET n == DayNumber(dt)
      t == n + (4 - WeekdayOf(n))
      r == DayOfYearFrom(BaseYear - 1, t)
      w == CHOOSE k \in 1..53 : 7 * (k - 1) < r.dayOfYear + 1 /\ r.dayOfYear + 1 <= 7 * k
  IN  [year |-> r.year, week |-> w]

DecimalValue(c) == CHOOSE n \in 0..9 : Digit(n) = c

\* The key reads YYYY-Www with the year and week of IsoWeekOf.
IsWeekKeyOf(key, dt) ==
  LET iso == IsoWeekOf(dt)
  IN  /\ Len(key) = 8
      /\ key[5] = "-" /\ key[6] = "W"
      /\ \A i \in {1, 2, 3, 4, 7, 8} : \E n \in 0..9 : Digit(n) = key[i]
      /\ 1000 * DecimalValue(key[1]) + 100 * DecimalValue(key[2])
           + 10 * DecimalValue(key[3]) + DecimalValue(key[4]) = iso.year
      /\ 10 * DecimalValue(key[7]) + DecimalValue(key[8]) = iso.week

\* C7: for every date of the range, the week key App starts with is the
\* ISO-8601 week identifier YYYY-Www of that date: the year of the Thursday of
\* the date's Monday-to-Sunday week, and the week ceil((days from 1 January of
\* that year to that Thursday + 1) / 7) in two digits; 2026-03-02 gives
\* 2026-W10 and 2018-12-31 gives a key of year 2019.
C7_WeekKeyIsIso ==
  ~mountEffectRan =>
    /\ IsWeekKeyOf(weekKey, today)
    /\ today = [y |-> 2026, m |-> 2, d |-> 2]
         => weekKey = <<"2", "0", "2", "6", "-", "W", "1", "0">>
    /\ today = [y |-> 2018, m |-> 11, d |-> 31]
         => SubSeq(weekKey, 1, 4) = <<"2", "0", "1", "9">>

C7_Witness ==
  /\ ~mountEffectRan
  /\ today = [y |-> 2018, m |-> 11, d |-> 31]
  /\ weekKey = <<"2", "0", "1", "9", "-", "W", "0", "1">>

(***************************************************************************)
(* C8.  The derived weekEntries view.                                      *)
(***************************************************************************)
\* C8: in every state of the mounted component, weekEntries is exactly the
\* subsequence of the cached entries whose weekKey equals the selected week
\* key (whatever string that is), in the order of the cached list; so it has
\* been recomputed after every change of the entries or of the week key.
C8_WeekEntriesIsFilter ==
  mounted =>
    LET pick == {i \in 1..Len(entries) : entries[i].weekKey = weekKey}
    IN  /\ Len(weekEntries) = Cardinality(pick)
        /\ \A k \in 1..Len(weekEntries) :
             \E i \in pick :
               /\ Cardinality({j \in pick : j < i}) = k - 1
               /\ weekEntries[k] = entries[i]

C8_Witness ==
  /\ mounted
  /\ Len(entries) = 2
  /\ entries[1].weekKey # entries[2].weekKey
  /\ weekKey = <<"x">>
  /\ Len(weekEntries) = 1
  /\ weekEntries[1] = entries[2]

C2_FailureIsolation ==
  [][/\ \A i \in 1..Len(gsPending), o \in ModelOutcomes :
          (o.kind \in {"status", "network"} /\ ModelSettle(i, o))
            => /\ summaryDocs' = summaryDocs
               /\ gsPending' = RemoveAt(gsPending, i)
               /\ mounted =>
                    /\ ~loadingAi'
                    /\ o.kind = "status" => error' = <<"AI request failed: ">> \o o.body
                    /\ o.kind = "network" => error' \in FetchErrors
     /\ (HandleGenerateSummary /\ GenerateSummaryRejection = <<>> /\ ~geminiKey)
          => /\ summaryDocs' = summaryDocs
             /\ gsPending' = gsPending
             /\ ~loadingAi'
             /\ error' = <<"Missing VITE_GEMINI_API_KEY in .env file.">>]_vars

C2_Witness ==
  /\ mounted /\ activeTeam # NoTeam
  /\ error = <<"AI request failed: ", "q">>
  /\ ~loadingAi
  /\ gsPending = <<>>
  /\ summaryDocs = <<>>

(***************************************************************************)
(* C3.  Every operation catches its own failures.                          *)
(***************************************************************************)
\* C3: whenever the store write a handler awaits is rejected, the handler
\* ends with the message of the rejection in the error slot (nothing leaves
\* the handler uncaught).
C3_FailuresCaught ==
  [][\A i \in 1..MaxInflight, e \in StoreErrors :
       (mounted /\ (CreateTeamRejected(i, e) \/ AddEntryRejected(i, e)
                     \/ SummaryWriteRejected(i, e)))
         => error' = e]_vars

(***************************************************************************)
(* C4.  The loading flag is eventually cleared.                            *)
(***************************************************************************)
\* Every awaited model call and every awaited summary write eventually
\* resolves or rejects.
FairSpec ==
  /\ Spec
  /\ WF_vars(\E i \in 1..MaxInflight, o \in ModelOutcomes : ModelSettle(i, o))
  /\ WF_vars(\E i \in 1..MaxInflight :
               SummaryWriteAck(i) \/ \E e \in StoreErrors : SummaryWriteRejected(i, e))

\* C4: whenever the loading flag is set it is eventually cleared, whether the
\* model call fails, the summary write fails, or both succeed.
C4_LoadingCleared == loadingAi ~> ~loadingAi

\* The loading flag is set and the model call has resolved: the summary
\* write is awaited.
C4_Witness ==
  /\ mounted /\ loadingAi
  /\ Len(gsPending) = 1 /\ gsPending[1].pc = "write"

(***************************************************************************)
(* C5.  Validation.                                                        *)
(***************************************************************************)
\* C5: CreateTeam with a team name that is empty after trimming, and
\* AddWeeklyInput with an active team, a configured store and a member name
\* or an update that is empty after trimming, put the validation message in
\* the error slot, write nothing, start no write, and leave the active team.
C5_Validation ==
  [][/\ (HandleCreateTeam /\ Trim(teamName) = <<>>)
          => /\ error' = <<"Team name is required.">>
             /\ storeVars' = storeVars /\ pendVars' = pendVars
             /\ activeTeam' = activeTeam
     /\ (HandleAddEntry /\ activeTeam # NoTeam /\ db
            /\ (Trim(memberName) = <<>> \/ Trim(update) = <<>>))
          => /\ error' = <<"Member name and update are required.">>
             /\ storeVars' = storeVars /\ pendVars' = pendVars
             /\ activeTeam' = activeTeam]_vars

C5_Witness ==
  /\ mounted /\ activeTeam # NoTeam /\ db
  /\ memberName # <<>> /\ Trim(memberName) = <<>>
  /\ Trim(update) # <<>>
  /\ error = <<"Member name and update are required.">>
  /\ weeklyInputs = <<>> /\ aePending = <<>>

(***************************************************************************)
(* C6.  Precondition: an active team.                                      *)
(***************************************************************************)
\* C6: AddWeeklyInput or GenerateSummary with no active team puts 'Create a
\* team first.' in the error slot, writes nothing, starts no write and no
\* model request, and the loading flag is false afterwards.
C6_Precondition ==
  [][((HandleAddEntry \/ HandleGenerateSummary) /\ activeTeam = NoTeam)
       => /\ error' = <<"Create a team first.">>
          /\ storeVars' = storeVars /\ pendVars' = pendVars
          /\ ~loadingAi']_vars

C6_Witness ==
  /\ mounted /\ db /\ activeTeam = NoTeam
  /\ Trim(memberName) # <<>> /\ Trim(update) # <<>>
  /\ error = <<"Create a team first.">>
  /\ weeklyInputs = <<>> /\ pendVars = <<<<>>, <<>>, <<>>>>
  /\ ~loadingAi

(***************************************************************************)
(* C9.  Session before store use.                                          *)
(***************************************************************************)
\* C9: no store write is started or done and no listener is attached unless
\* an anonymous session is established (auth.currentUser is set).
C9_SessionBeforeStore ==
  (\/ ctPending # <<>> \/ aePending # <<>>
   \/ \E i \in 1..Len(gsPending) : gsPending[i].pc = "write"
   \/ teams # <<>> \/ weeklyInputs # <<>> \/ summaryDocs # <<>>
   \/ listeners # {})
    => currentUser

(***************************************************************************)
(* C10.  Missing store configuration.                                      *)
(***************************************************************************)
\* The environment variable each required key is read from.
ExpectedEnvNames ==
  << <<"VITE_FIREBASE_", "A","P","I","_","K","E","Y">>,
     <<"VITE_FIREBASE_", "A","U","T","H","_","D","O","M","A","I","N">>,
     <<"VITE_FIREBASE_", "P","R","O","J","E","C","T","_","I","D">>,
     <<"VITE_FIREBASE_", "S","T","O","R","A","G","E","_","B","U","C","K","E","T">>,
     <<"VITE_FIREBASE_", "M","E","S","S","A","G","I","N","G","_","S","E","N","D","E","R","_","I","D">>,
     <<"VITE_FIREBASE_", "A","P","P","_","I","D">> >>

\* The names of the missing values from index i on, each but the first
\* preceded by ", ".
RECURSIVE ExpectedNames(_, _, _)
ExpectedNames(i, present, first) ==
  IF i > Len(ExpectedEnvNames) THEN <<>>
  ELSE IF i \in present THEN ExpectedNames(i + 1, present, first)
  ELSE (IF first THEN <<>> ELSE <<", ">>) \o ExpectedEnvNames[i]
       \o ExpectedNames(i + 1, present, FALSE)

ExpectedConfigMessage(present) ==
  <<"Missing Firebase environment variables: ">>
    \o ExpectedNames(1, present, TRUE) \o <<".">>

\* C10: when a required store configuration value is missing, in every state
\* no document is in the store, no write and no model request is pending, no
\* listener is attached and no team is active; and the mount effect puts the
\* one message naming every missing value in the error slot.
C10_Unconfigured ==
  /\ [](envPresent # 1..Len(requiredKeys) =>
          /\ storeVars = <<<<>>, <<>>, <<>>>>
          /\ pendVars = <<<<>>, <<>>, <<>>>>
          /\ listeners = {}
          /\ activeTeam = NoTeam
          /\ ~loadingAi)
  /\ [][(MountEffect /\ envPresent # 1..Len(requiredKeys))
          => error' = ExpectedConfigMessage(envPresent)]_vars

\* Two values are missing, the mount effect has run, and CreateTeam was
\* submitted with a name: the slot holds the aggregated message again.
C10_Witness ==
  /\ envPresent = {1, 3, 4, 6}
  /\ mountEffectRan /\ mounted
  /\ Trim(teamName) # <<>> /\ Trim(memberName) # <<>> /\ Trim(update) # <<>>
  /\ error = ExpectedConfigMessage(envPresent)

(***************************************************************************)
(* C11.  A missing inference credential disables summary generation only.  *)
(***************************************************************************)
\* C11: with the store configured and no inference credential, CreateTeam
\* with a name and AddWeeklyInput with a team, a member name and an update
\* are accepted (no message, the write is started) and their acknowledged
\* writes add the team and the weekly input; every GenerateSummary that
\* passes its preconditions ends with the missing-credential message, starts
\* no request and writes nothing; no request is ever pending and no Summary
\* is ever in the store.
C11_OnlySummaryDisabled ==
  /\ [](~geminiKey => (gsPending = <<>> /\ summaryDocs = <<>>))
  /\ [][(~geminiKey /\ db) =>
          /\ (HandleCreateTeam /\ Trim(teamName) # <<>>)
               => /\ error' = <<>>
                  /\ ctPending' = Append(ctPending, [teamName |-> teamName])
          /\ \A i \in 1..Len(ctPending) :
               CreateTeamAck(i)
                 => /\ Len(teams') = Len(teams) + 1
                    /\ teams'[Len(teams')].name = Trim(ctPending[i].teamName)
                    /\ mounted => activeTeam'.id = teams'[Len(teams')].id
          /\ (HandleAddEntry /\ activeTeam # NoTeam
                /\ Trim(memberName) # <<>> /\ Trim(update) # <<>>)
               => /\ error' = <<>>
                  /\ Len(aePending') = Len(aePending) + 1
          /\ \A i \in 1..Len(aePending) :
               AddEntryAck(i)
                 => /\ Len(weeklyInputs') = Len(weeklyInputs) + 1
                    /\ weeklyInputs'[Len(weeklyInputs')].update = aePending[i].update
          /\ (HandleGenerateSummary /\ activeTeam # NoTeam /\ weekEntries # <<>>)
               => /\ error' = <<"Missing VITE_GEMINI_API_KEY in .env file.">>
                  /\ gsPending' = gsPending
                  /\ summaryDocs' = summaryDocs
                  /\ ~loadingAi']_vars

\* No credential: a team and a weekly input of the selected week were
\* written, and GenerateSummary left the missing-credential message.
C11_Witness ==
  /\ ~geminiKey /\ db /\ mounted
  /\ activeTeam # NoTeam /\ teams # <<>>
  /\ weekEntries # <<>>
  /\ error = <<"Missing VITE_GEMINI_API_KEY in .env file.">>
  /\ gsPending = <<>> /\ summaryDocs = <<>> /\ ~loadingAi

(***************************************************************************)
(* C12.  Every weekly input and every summary has its parent team.         *)
(***************************************************************************)
\* C12: in every state, each WeeklyInput and each Summary document of the
\* store lies under a Team document that is in the store; the active team,
\* when there is one, is a team of the store under the name it was written
\* with; and every write that is awaited is addressed to a team of the store.
C12_ParentExists ==
  LET IsTeam(id) == \E t \in 1..Len(teams) : teams[t].id = id
  IN  /\ \A i \in 1..Len(weeklyInputs) : IsTeam(weeklyInputs[i].team)
      /\ \A i \in 1..Len(summaryDocs) : IsTeam(summaryDocs[i].team)
      /\ activeTeam # NoTeam =>
           \E t \in 1..Len(teams) :
             teams[t].id = activeTeam.id /\ teams[t].name = activeTeam.name
      /\ \A i \in 1..Len(aePending) : IsTeam(aePending[i].team.id)
      /\ \A i \in 1..Len(gsPending) : IsTeam(gsPending[i].team.id)

\* Two teams exist; a weekly input and a summary lie under the first one
\* while the second one is active.
C12_Witness ==
  /\ Len(teams) = 2 /\ activeTeam.id = 2
  /\ \E i \in 1..Len(weeklyInputs) : weeklyInputs[i].team = 1
  /\ \E i \in 1..Len(summaryDocs) : summaryDocs[i].team = 1

(***************************************************************************)
(* C13.  Two subscriptions while a team is active.                         *)
(***************************************************************************)
TeamListeners(t) ==
  { [team |-> t, coll |-> "weeklyInputs"], [team |-> t, coll |-> "summaries"] }

\* C13 as stated: in every state of the mounted component with an active
\* team and a configured store, the attached listeners are exactly the two of
\* the active team, and with no active team none is attached.
C13_TwoSubscriptions ==
  /\ (mounted /\ db /\ activeTeam # NoTeam) => listeners = TeamListeners(activeTeam.id)
  /\ activeTeam = NoTeam => listeners = {}

\* C13, amended: the listeners follow the active team once the [activeTeam]
\* effect has run for it.  In every state the attached listeners are those of
\* the team the effect last ran for: none when that is no team, and exactly
\* the two (one per collection) when it is a team; so no listener of a team
\* left earlier stays attached and no collection is listened to twice.  When
\* the effect has run for the active team, these are the active team's two;
\* with no active team none is attached.  Every run of the effect ends with
\* exactly the two listeners of the active team.
C13_TwoSubscriptionsAfterEffect ==
  /\ [](/\ listeners = (IF effTeam = 0 THEN {} ELSE TeamListeners(effTeam))
        /\ \A c \in {"weeklyInputs", "summaries"} :
             Cardinality({l \in listeners : l.coll = c}) <= 1
        /\ (mounted /\ db /\ activeTeam # NoTeam /\ effTeam = activeTeam.id)
             => listeners = TeamListeners(activeTeam.id)
        /\ activeTeam = NoTeam => listeners = {})
  /\ [][SubscriptionEffect => listeners' = TeamListeners(activeTeam.id)]_vars

\* The second team is active after a switch from the first, the effect has
\* run for it, and its two listeners are the ones attached.
C13_Witness ==
  /\ mounted /\ db /\ Len(teams) = 2
  /\ activeTeam.id = 2 /\ effTeam = 2
  /\ Cardinality(listeners) = 2
  /\ \A l \in listeners : l.team = 2
  /\ weeklyInputs # <<>> /\ weeklyInputs[1].team = 1

(***************************************************************************)
(* C14.  The store write precedes the local state change.                  *)
(***************************************************************************)
\* C14: submitting CreateTeam or AddWeeklyInput changes neither the active
\* team nor a form field nor the store (the write is only started); the
\* active team changes in a mounted component only in a step in which the
\* team document is added to the store, it becomes that document's team and
\* the name field is emptied in the same step; the acknowledgement of a
\* weekly-input write adds the document and empties the update field; and a
\* rejected team or weekly-input write leaves the active team, the form
\* fields and the store as they were.
C14_WriteBeforeLocalChange ==
  [][/\ (HandleCreateTeam \/ HandleAddEntry)
          => /\ activeTeam' = activeTeam
             /\ formVars' = formVars
             /\ storeVars' = storeVars
     /\ (mounted' /\ activeTeam' # activeTeam)
          => /\ Len(teams') = Len(teams) + 1
             /\ activeTeam'.id = teams'[Len(teams')].id
             /\ teamName' = <<>>
     /\ \A i \in 1..Len(aePending) :
          (mounted /\ AddEntryAck(i))
            => /\ Len(weeklyInputs') = Len(weeklyInputs) + 1
               /\ update' = <<>>
     /\ \A i \in 1..MaxInflight, e \in StoreErrors :
          (CreateTeamRejected(i, e) \/ AddEntryRejected(i, e))
            => /\ activeTeam' = activeTeam
               /\ formVars' = formVars
               /\ storeVars' = storeVars]_vars

\* The write of a second team and the write of a weekly input are awaited:
\* the first team is still the active one and the name and update fields
\* still hold what was submitted.
C14_Witness ==
  /\ mounted /\ activeTeam.id = 1 /\ Len(teams) = 1
  /\ Len(ctPending) = 1 /\ ctPending[1].teamName = teamName
  /\ Len(aePending) = 1 /\ Trim(update) = aePending[1].update

(***************************************************************************)
(* C15.  What a successful AddWeeklyInput changes.                         *)
(***************************************************************************)
\* t is s without its leading and trailing spaces, t not empty.
IsTrimmed(t, s) ==
  \E i \in 1..Len(s), j \in 1..Len(s) :
    /\ i <= j /\ t = SubSeq(s, i, j)
    /\ s[i] # " " /\ s[j] # " "
    /\ \A k \in 1..Len(s) : (k < i \/ k > j) => s[k] = " "

\* C15: an accepted AddWeeklyInput awaits one write that carries the active
\* team, the trimmed member name, the trimmed update and the selected week
\* key of the moment of the invocation; its acknowledgement appends exactly
\* one WeeklyInput with these values under that team, changes no other
\* document, empties the update field of the mounted component, and leaves
\* the member-name field, the selected week key, the team-name field and the
\* active team as they are.
C15_AddEntryFrame ==
  [][/\ (HandleAddEntry /\ aePending' # aePending)
          => /\ Len(aePending') = Len(aePending) + 1
             /\ LET p == aePending'[Len(aePending')]
                IN  /\ p.team = activeTeam /\ activeTeam # NoTeam
                    /\ IsTrimmed(p.memberName, memberName)
                    /\ IsTrimmed(p.update, update)
                    /\ p.weekKey = weekKey
     /\ \A i \in 1..Len(aePending) :
          AddEntryAck(i)
            => /\ Len(weeklyInputs') = Len(weeklyInputs) + 1
               /\ SubSeq(weeklyInputs', 1, Len(weeklyInputs)) = weeklyInputs
               /\ LET d == weeklyInputs'[Len(weeklyInputs')]
                      p == aePending[i]
                  IN  /\ d.team = p.team.id
                      /\ d.memberName = p.memberName
                      /\ d.update = p.update
                      /\ d.weekKey = p.weekKey
               /\ teams' = teams /\ summaryDocs' = summaryDocs
               /\ mounted => update' = <<>>
               /\ memberName' = memberName /\ weekKey' = weekKey
               /\ teamName' = teamName /\ activeTeam' = activeTeam]_vars

\* A weekly input was written with the trimmed values and with the week key
\* of its invocation, which is no longer the selected one; the update field
\* is empty and the member-name field still holds what was typed.
C15_Witness ==
  /\ mounted /\ activeTeam.id = 1
  /\ Len(weeklyInputs) = 1 /\ aePending = <<>>
  /\ weeklyInputs[1].team = 1
  /\ weeklyInputs[1].memberName = <<"A">> /\ memberName = <<"A", " ">>
  /\ weeklyInputs[1].update = <<"u">> /\ update = <<>>
  /\ weeklyInputs[1].weekKey # weekKey

(***************************************************************************)
(* C16.  The cache after a subscription callback.                          *)
(***************************************************************************)
\* list holds exactly the documents of team t of the collection, each once,
\* the later created first.
IsSnapshotOf(list, coll, t) ==
  /\ Len(list) = Cardinality({j \in 1..Len(coll) : coll[j].team = t})
  /\ \A j \in 1..Len(coll) :
       coll[j].team = t => \E i \in 1..Len(list) : list[i] = coll[j]
  /\ \A i \in 1..Len(list) : list[i].team = t
  /\ \A i \in 1..Len(list), k \in 1..Len(list) :
       i < k => list[i].createdAt > list[k].createdAt

\* C16 as stated: after every subscription callback of the mounted component
\* the cached list of the callback's collection is the store's list of the
\* active team, the later created first.
C16_CacheIsActiveTeamSnapshot ==
  [][\A l \in listeners :
       (mounted /\ SnapshotCallback(l))
         => IF l.coll = "weeklyInputs"
            THEN IsSnapshotOf(entries', weeklyInputs, activeTeam.id)
            ELSE IsSnapshotOf(summaries', summaryDocs, activeTeam.id)]_vars

\* C16, amended: after every subscription callback of the mounted component
\* the cached list of the callback's collection is the store's list of the
\* team the listener is attached to, the later created first, and the other
\* cached list is as before; that team is the one the [activeTeam] effect
\* last ran for, hence the active team once the effect has run for it.  The
\* cached lists of the mounted component change in callback steps only: no
\* submission, acknowledgement or rejection of a write changes them.
C16_CacheIsListenerSnapshot ==
  [][/\ \A l \in listeners :
          (mounted /\ SnapshotCallback(l))
            => /\ l.team = effTeam
               /\ IF l.coll = "weeklyInputs"
                  THEN /\ IsSnapshotOf(entries', weeklyInputs, l.team)
                       /\ summaries' = summaries
                  ELSE /\ IsSnapshotOf(summaries', summaryDocs, l.team)
                       /\ entries' = entries
               /\ effTeam = activeTeam.id
                    => /\ l.coll = "weeklyInputs"
                         => IsSnapshotOf(entries', weeklyInputs, activeTeam.id)
                       /\ l.coll = "summaries"
                         => IsSnapshotOf(summaries', summaryDocs, activeTeam.id)
     /\ (mounted' /\ <<entries, summaries>>' # <<entries, summaries>>)
          => \E l \in listeners : SnapshotCallback(l)]_vars

\* Both weekly inputs of the active team are cached, the later one first,
\* and so is its summary.
C16_Witness ==
  /\ mounted /\ activeTeam # NoTeam /\ effTeam = activeTeam.id
  /\ Len(entries) = 2 /\ entries[1].createdAt > entries[2].createdAt
  /\ entries[1].team = activeTeam.id /\ entries[2].team = activeTeam.id
  /\ Len(summaries) = 1 /\ summaries[1].team = activeTeam.id

(***************************************************************************)
(* C17.  The loading flag while a model call is pending.                   *)
(***************************************************************************)
\* C17: in every state of the mounted component in which a GenerateSummary
\* invocation awaits its model call (or, after it, its summary write), the
\* loading flag is true; GenerateSummary is invoked only while the flag is
\* false and no invocation is pending (the button is disabled otherwise), so
\* no second invocation can clear the flag of the first; and no step of
\* CreateTeam, of AddWeeklyInput, of a form field, of a subscription or of
\* the session changes the flag.
C17_LoadingWhilePending ==
  /\ []((mounted /\ gsPending # <<>>) => loadingAi)
  /\ [][/\ HandleGenerateSummary => (~loadingAi /\ gsPending = <<>>)
        /\ (mounted' /\ loadingAi' # loadingAi)
             => \/ HandleGenerateSummary
                \/ \E i \in 1..Len(gsPending) :
                     \/ \E o \in ModelOutcomes : ModelSettle(i, o)
                     \/ SummaryWriteAck(i)
                     \/ \E e \in StoreErrors : SummaryWriteRejected(i, e)]_vars

\* The model call is awaited and the flag is set, while the user has moved
\* to another week and a weekly-input write is awaited as well.
C17_Witness ==
  /\ mounted /\ loadingAi
  /\ Len(gsPending) = 1 /\ gsPending[1].pc = "fetch"
  /\ weekKey # gsPending[1].weekKey
  /\ Len(aePending) = 1

(***************************************************************************)
(* C18.  GenerateSummary with no entry of the selected week.               *)
(***************************************************************************)
\* C18: GenerateSummary with an active team and a configured store, when no
\* cached entry has the selected week key, puts 'Add at least one weekly
\* update before generating summary.' in the error slot, leaves the loading
\* flag false, starts no model request and writes nothing.
C18_NoEntriesOfWeek ==
  [][(HandleGenerateSummary /\ activeTeam # NoTeam /\ db
        /\ \A i \in 1..Len(entries) : entries[i].weekKey # weekKey)
       => /\ error' = <<"Add at least one weekly update before generating summary.">>
          /\ ~loadingAi /\ ~loadingAi'
          /\ gsPending' = gsPending
          /\ storeVars' = storeVars]_vars

\* The cache holds an entry of another week than the selected one and
\* GenerateSummary left its message.
C18_Witness ==
  /\ mounted /\ db /\ activeTeam # NoTeam /\ geminiKey
  /\ entries # <<>>
  /\ \A i \in 1..Len(entries) : entries[i].weekKey # weekKey
  /\ error = <<"Add at least one weekly update before generating summary.">>
  /\ ~loadingAi /\ gsPending = <<>> /\ summaryDocs = <<>>

(***************************************************************************)
(* C19.  The entries of a summary's prompt and the summary's team.         *)
(***************************************************************************)
\* C19: the entries a GenerateSummary invocation puts into its prompt all
\* belong to the team the invocation stores its Summary under.  Stated for
\* the invocations made once the [activeTeam] effect has run for the active
\* team, which include those made after a team switch and before the first
\* snapshot of the new team has replaced the cached entries.
C19_PromptOfSameTeam ==
  [][(HandleGenerateSummary /\ effTeam = activeTeam.id
        /\ Len(gsPending') = Len(gsPending) + 1)
       => LET p == gsPending'[Len(gsPending')]
          IN  \A k \in 1..Len(p.updates) : p.updates[k].team = p.team.id]_vars

(***************************************************************************)
(* C20.  The team and the week key of a summary.                           *)
(***************************************************************************)
\* C20: an accepted GenerateSummary invocation holds the active team, the
\* selected week key and a non-empty prompt at the moment of the invocation;
\* every entry of the prompt of a pending invocation has the invocation's
\* week key; the settling of the model call changes neither the team nor the
\* week key nor the prompt of the invocation; and the acknowledged write
\* appends one Summary under that team with that week key, whatever the
\* selected week key and the active team are by then.
C20_SummaryOfInvocation ==
  /\ [](\A i \in 1..Len(gsPending) :
          /\ gsPending[i].updates # <<>>
          /\ \A k \in 1..Len(gsPending[i].updates) :
               gsPending[i].updates[k].weekKey = gsPending[i].weekKey)
  /\ [][/\ (HandleGenerateSummary /\ Len(gsPending') = Len(gsPending) + 1)
             => LET p == gsPending'[Len(gsPending')]
                IN  p.team = activeTeam /\ p.weekKey = weekKey
        /\ \A i \in 1..Len(gsPending) :
             /\ (\E o \in ModelOutcomes : ModelSettle(i, o) /\ ModelFailure(o) = <<>>)
                  => /\ gsPending'[i].team = gsPending[i].team
                     /\ gsPending'[i].weekKey = gsPending[i].weekKey
                     /\ gsPending'[i].updates = gsPending[i].updates
             /\ SummaryWriteAck(i)
                  => /\ Len(summaryDocs') = Len(summaryDocs) + 1
                     /\ SubSeq(summaryDocs', 1, Len(summaryDocs)) = summaryDocs
                     /\ summaryDocs'[Len(summaryDocs')].team = gsPending[i].team.id
                     /\ summaryDocs'[Len(summaryDocs')].weekKey = gsPending[i].weekKey]_vars

\* A Summary was written for the first team and the week of its invocation
\* after the user had moved to another week and to a second team.
C20_Witness ==
  /\ mounted /\ Len(summaryDocs) = 1
  /\ summaryDocs[1].team = 1 /\ activeTeam.id = 2
  /\ summaryDocs[1].weekKey # weekKey
  /\ gsPending = <<>> /\ ~loadingAi

====
